---------------------------- MODULE Spec2Model ----------------------------
(***************************************************************************)
(* Model of the proxy rotation engine of src/python_rotation.py: the Proxy *)
(* dataclass (update_stats, is_reliable) and the ProxyRotator that owns a  *)
(* list of Proxy objects (validation, get_next_proxy, report_proxy_result, *)
(* add_proxy, remove_proxy, get_proxy_by_country, get_stats).              *)
(*                                                                         *)
(* Numbers.  The source computes with Python floats.  The model computes   *)
(* the same expressions exactly, in decimal fixed point:                   *)
(*   success_rate   is stored times Scale    = 10^MaxUpdates,              *)
(*   response_time  is stored in centiseconds times LatScale = 10^MaxBlends*)
(* An endpoint counts the updates (n) and latency blends (nb) applied to   *)
(* it; update_stats is enabled while these stay within MaxUpdates and      *)
(* MaxBlends, so every 0.7/0.3 blend is an exact integer.                  *)
(*                                                                         *)
(* Objects.  Proxy objects have an identity (1..4) apart from their        *)
(* fields: the list holds identities, and `in` / list.remove compare by    *)
(* identity or by the dataclass __eq__ over all fields.                    *)
(*                                                                         *)
(* Specifications.                                                         *)
(*   SpecEndpoint  one Proxy under update_stats and is_reliable calls      *)
(*   Spec          fresh Proxy objects, the constructor with its           *)
(*                 validation batch, then calls on the rotator             *)
(*   SpecSelect    a rotator whose endpoints have been in use, and a       *)
(*                 caller that takes a proxy and reports the outcome       *)
(*   SpecRelease   the same rotator, and a caller that takes a proxy,      *)
(*                 removes it from the pool and then reports the outcome   *)
(*   SpecValidate  the constructor and its validation batch, for lists up  *)
(*                 to one longer than the ten worker threads               *)
(*   SpecProbe     one _test_proxy call, for every proxy type and every    *)
(*                 outcome of the requests it makes                        *)
(*   SpecRace      two threads, each making one call on the same rotator,  *)
(*                 interleaved at the loads and stores of attributes       *)
(*   SpecRotate    one caller that takes a proxy and reports on it before  *)
(*                 taking the next                                         *)
(*   SpecCallers   two callers that take proxies and report on them later, *)
(*                 interleaved between calls                               *)
(*   SpecBot       the sessions of WebsiteVisitorBot, the caller in        *)
(*                 src/website_visiter_bot.py                              *)
(***************************************************************************)
EXTENDS Integers, Sequences, FiniteSets, TLC

VARIABLES
    obj,      \* obj[i]: the fields of Proxy object i (objects have identity i)
    proxies,  \* ProxyRotator.proxies: the list of object identities
    now,      \* the last reading of time.time()
    phase,    \* "new" (rotator not constructed), "validating", "ready"
    val,      \* _validate_proxies bookkeeping: futures of the running batch
    last,     \* the last completed call: operation, arguments, return value
    hist,     \* success flags of the update_stats calls on object 1, in order
    thr,      \* thr[t]: the call thread t is in, its position and its locals
    ops       \* number of calls the behaviour may still make on the rotator

vars == <<obj, proxies, now, phase, val, last, hist, thr, ops>>

---------------------------------------------------------------------------
\* Bounds of the model.

MaxUpdates == 7   \* update_stats calls per endpoint
MaxBlends == 2    \* latency blends (0.7*old + 0.3*new) per endpoint
MaxClock == 3     \* readings of time.time() are 1..MaxClock
MaxOps == 2       \* calls on a rotator constructed in the behaviour
MaxCalls == 3     \* calls of a caller on a rotator that has been in use
LargePool == 11   \* endpoints of the large list a rotator is constructed from

---------------------------------------------------------------------------
\* Numbers.

RECURSIVE Pow10(_)
Pow10(k) == IF k = 0 THEN 1 ELSE 10 * Pow10(k - 1)

Scale == Pow10(MaxUpdates)      \* success_rate 1.0
LatScale == Pow10(MaxBlends)    \* response_time 0.01 s

None == -1                      \* Optional[...] = None; also "no proxy"

\* Latencies a probe or a caller reports, in centiseconds (0.05 s .. 0.50 s).
Latencies == {5, 10, 50}
LatencyArgs == {None} \cup Latencies

\* The Proxy(host, port, ...) calls of a behaviour, by number.  Calls 1..4
\* are the endpoints callers work with; call 4 has the host and port of
\* call 1.  Calls 90..92 have an empty host, port 0 and port 65536.  The
\* numbers past these are endpoints of one more host, one per port; they
\* occur in the large list only.
CandidateIds == {1, 2, 3, 4, 90, 91, 92}

HostOf(i) ==
    IF i \in {1, 4} THEN "10.0.0.1" ELSE IF i = 2 THEN "10.0.0.2"
    ELSE IF i = 3 THEN "10.0.0.3" ELSE IF i = 90 THEN "" ELSE "10.0.1.1"
PortOf(i) ==
    IF i \in {1, 4} THEN 8080 ELSE IF i = 2 THEN 3128 ELSE IF i = 3 THEN 65535
    ELSE IF i = 90 THEN 8080 ELSE IF i = 91 THEN 0 ELSE IF i = 92 THEN 65536
    ELSE 9000 + i
\* Object 3 has no country (None is modelled by the empty string).
CountryOf(i) == IF i \in {1, 4} THEN "US" ELSE IF i = 2 THEN "us" ELSE ""
\* Object 3 is a SOCKS5 proxy with credentials; the others have the defaults.
TypeOf(i) == IF i = 3 THEN "SOCKS5" ELSE "HTTP"
UserOf(i) == IF i = 3 THEN "user" ELSE ""
PasswordOf(i) == IF i = 3 THEN "secret" ELSE ""

\* Faulty variant: port 65536 is accepted.
PostInitMutPort(host, port) == (0 < port /\ port <= 65536) /\ host # ""

\* Proxy.__post_init__ returns without raising ValueError: lines 50-54.
PostInit(host, port) == (0 < port /\ port < 65536) /\ host # ""

\* The Proxy objects: the calls whose construction did not raise.
ObjIds == {i \in CandidateIds : PostInit(HostOf(i), PortOf(i))}

\* Proxy(host, port, country=...): the dataclass defaults.
Fresh(i) ==
    [host |-> HostOf(i), port |-> PortOf(i), username |-> UserOf(i),
     password |-> PasswordOf(i), proxy_type |-> TypeOf(i), country |-> CountryOf(i),
     last_used |-> 0, response_time |-> None, success_rate |-> 0,
     failed_attempts |-> 0, n |-> 0, nb |-> 0]

\* The dataclass-generated __eq__: all fields, statistics included.
ProxyEq(p, q) ==
    /\ p.host = q.host
    /\ p.port = q.port
    /\ p.username = q.username
    /\ p.password = q.password
    /\ p.proxy_type = q.proxy_type
    /\ p.country = q.country
    /\ p.last_used = q.last_used
    /\ p.response_time = q.response_time
    /\ p.success_rate = q.success_rate
    /\ p.failed_attempts = q.failed_attempts

---------------------------------------------------------------------------
\* Proxy.update_stats and Proxy.is_reliable.

\* The model can apply update_stats(success, rt) to p exactly.
CanUpdate(p, rt) ==
    /\ p.n < MaxUpdates
    /\ (rt # None /\ p.response_time # None) => p.nb < MaxBlends

\* response_time after update_stats(_, rt): lines 98-103.
BlendLatency(old, rt) ==
    IF rt = None THEN old
    ELSE IF old = None THEN rt * LatScale
    ELSE (7 * old + 3 * rt * LatScale) \div 10

\* Faulty variant: a success adds 0.3 to the score without decaying it.
BlendRateMutAdd(rate, success) ==
    IF success THEN rate + (3 * Scale) \div 10 ELSE (7 * rate) \div 10

\* Faulty variant: a failure leaves the score as it is.
BlendRateMutDrift(rate, success) ==
    IF success THEN (7 * rate + 3 * Scale) \div 10 ELSE rate

\* Faulty variant: a success weighs 0.2 instead of 0.3.
BlendRateMutSlow(rate, success) ==
    IF success THEN (8 * rate + 2 * Scale) \div 10 ELSE (7 * rate) \div 10

\* Faulty variant: a failure sets the score to 0.
BlendRateMutReset(rate, success) ==
    IF success THEN (7 * rate + 3 * Scale) \div 10 ELSE 0

\* success_rate after update_stats(success, _): lines 105-111.
BlendRate(rate, success) ==
    IF success THEN (7 * rate + 3 * Scale) \div 10
    ELSE (7 * rate + 3 * 0) \div 10

\* Faulty variant: a failure sets the counter to 1 instead of adding 1.
NextFailedMutFlag(failed, success) ==
    IF success THEN 0 ELSE 1

\* failed_attempts after update_stats(success, _): lines 108, 112.
NextFailed(failed, success) ==
    IF success THEN 0 ELSE failed + 1

\* p after p.update_stats(success, rt) when time.time() reads t.
update_stats(p, success, rt, t) ==
    [p EXCEPT
        !.last_used = t,
        !.response_time = BlendLatency(p.response_time, rt),
        !.success_rate = BlendRate(p.success_rate, success),
        !.failed_attempts = NextFailed(p.failed_attempts, success),
        !.n = p.n + 1,
        !.nb = IF rt # None /\ p.response_time # None THEN p.nb + 1 ELSE p.nb]

\* Faulty variant: three consecutive failures are still tolerated.
is_reliable_mut_le(p) ==
    (p.success_rate * 10 >= 7 * Scale \/ p.success_rate = 0) /\ p.failed_attempts <= 3

\* Faulty variant: a score of 0.6 is enough.
is_reliable_mut_lenient(p) ==
    (p.success_rate * 10 >= 6 * Scale \/ p.success_rate = 0) /\ p.failed_attempts < 3

\* p.is_reliable(): line 119.
is_reliable(p) ==
    (p.success_rate * 10 >= 7 * Scale \/ p.success_rate = 0) /\ p.failed_attempts < 3

\* A reading of time.time(): not before the last one (capped at MaxClock).
ClockReadings == {t \in {now, now + 1} : 1 <= t /\ t <= MaxClock}

\* A completed call: the operation, its arguments, its return value.  For
\* add_proxy the field success holds the validate argument.
Call(op, i, s, rt, ret) == [op |-> op, proxy |-> i, success |-> s, rt |-> rt, ret |-> ret]
NoCall == Call("none", None, FALSE, None, None)

\* min_proxies: int = 1
min_proxies == 1

\* No validation batch is running.  queued: the executor's work queue;
\* running: the _test_proxy calls in flight; done: completed futures the
\* as_completed loop has not consumed; valid: valid_count; started and
\* results: the probes started and the results returned in this batch;
\* min_proxies: self.min_proxies.
NoVal ==
    [queued |-> <<>>, running |-> {}, done |-> {}, valid |-> 0,
     started |-> <<>>, results |-> {}, min_proxies |-> min_proxies]

\* The threads of the callers of one rotator.
Threads == {1, 2}

\* A thread that is in no call.  pc: the position in the call; proxy,
\* validate, success, rt: the arguments (for add_proxy, success and rt hold
\* the result of _test_proxy); tmp: a value the thread keeps between two
\* steps, such as one loaded from an attribute and not yet stored back; ret: the return value, or the exception raised;
\* updated: the call has run update_stats on its proxy.
Idle ==
    [op |-> "none", pc |-> "idle", proxy |-> None, validate |-> FALSE,
     success |-> FALSE, rt |-> None, tmp |-> None, ret |-> "", updated |-> FALSE]

NoThreads == [t \in Threads |-> Idle]

---------------------------------------------------------------------------
\* ProxyRotator: helpers.

Min2(a, b) == IF a <= b THEN a ELSE b

Range(seq) == {seq[k] : k \in 1..Len(seq)}

RECURSIVE SumSeq(_)
SumSeq(seq) == IF seq = <<>> THEN 0 ELSE seq[1] + SumSeq(Tail(seq))

MaxOf(S) == CHOOSE m \in S : \A x \in S : x <= m

\* list.sort(key=...) / sorted(key=...): a stable sort, ascending in key.
InsertSorted(sorted, x, key) ==
    LET k == Cardinality({j \in 1..Len(sorted) : key[sorted[j]] <= key[x]})
    IN  SubSeq(sorted, 1, k) \o <<x>> \o SubSeq(sorted, k + 1, Len(sorted))

RECURSIVE SortedBy(_, _)
SortedBy(seq, key) ==
    IF seq = <<>> THEN <<>>
    ELSE InsertSorted(SortedBy(SubSeq(seq, 1, Len(seq) - 1), key), seq[Len(seq)], key)

\* key=lambda p: p.last_used
LastUsedKey == [i \in ObjIds |-> obj[i].last_used]

\* key=lambda p: p.success_rate, reverse=True (a reversed sort stays stable)
RateDescKey == [i \in ObjIds |-> 0 - obj[i].success_rate]

\* `proxy in self.proxies`: list membership is by identity or by __eq__.
InPool(i) == \E k \in 1..Len(proxies) : proxies[k] = i \/ ProxyEq(obj[proxies[k]], obj[i])

\* Faulty variant: no reliability filter.
ReliableProxiesMutAll == proxies

\* [p for p in self.proxies if p.is_reliable()]
ReliableProxies == SelectSeq(proxies, LAMBDA i : is_reliable(obj[i]))

---------------------------------------------------------------------------
\* ProxyRotator._test_proxy: the outcome of a probe is the network's choice.

\* The latency the probe target shows through endpoint i (centiseconds).
ProbeLatency(i) == IF i = 1 THEN 5 ELSE IF i = 2 THEN 10 ELSE IF i = 3 THEN 50 ELSE 10

\* class ProxyType
ProxyTypes == {"HTTP", "SOCKS4", "SOCKS5", "RESIDENTIAL", "TOR"}

\* What a requests.get call can raise: classes of requests.exceptions, and
\* one exception from elsewhere.  ConnectTimeout derives from both
\* ConnectionError and Timeout.
Exceptions == {"Timeout", "ReadTimeout", "ConnectTimeout", "ConnectionError", "ValueError"}
IsTimeout(e) == e \in {"Timeout", "ReadTimeout", "ConnectTimeout"}
IsConnectionError(e) == e \in {"ConnectionError", "ConnectTimeout"}

\* Faulty variant: only the exceptions of requests are caught.
IsExceptionMutRequests(e) == e \in {"Timeout", "ReadTimeout", "ConnectTimeout", "ConnectionError"}

\* `except Exception`: every class above derives from Exception.
IsException(e) == e \in Exceptions

\* The status codes and bodies the test URL is answered with.  A body is
\* not JSON, a JSON object with "origin", with "ip", with neither, or the
\* JSON value null.
Statuses == {200, 201, 204, 301, 404, 500}
Bodies == {"not_json", "origin", "ip", "other_keys", "null"}

Raises(e) == [raises |-> TRUE, exc |-> e, status |-> 0, body |-> ""]
Response(st, b) == [raises |-> FALSE, exc |-> "", status |-> st, body |-> b]

\* The outcomes of a requests.get call.
NetOutcomes ==
    {Raises(e) : e \in Exceptions} \cup {Response(st, b) : st \in Statuses, b \in Bodies}

\* The result of _test_proxy: the tuple it returns, or the exception that
\* leaves it, and the requests it made.
Returned(ok, rt, reqs) == [ok |-> ok, rt |-> rt, raised |-> "", requests |-> reqs]
Propagated(e, reqs) == [ok |-> FALSE, rt |-> None, raised |-> e, requests |-> reqs]

\* Faulty variant: a body that is not JSON counts as a body without an IP.
JsonCheckMutStrict(b) ==
    IF b \in {"origin", "ip"} THEN "found"
    ELSE IF b \in {"other_keys", "not_json"} THEN "missing"
    ELSE "raises"

\* Lines 215-222: response.json() and the test for "origin" or "ip".
\* response.json() raises on a body that is not JSON, and `in` raises
\* TypeError on null.
JsonCheck(b) ==
    IF b \in {"origin", "ip"} THEN "found"
    ELSE IF b = "other_keys" THEN "missing"
    ELSE "raises"

\* Lines 214-224: the verdict on a response.
Verdict(resp, lat, reqs) ==
    IF resp.status = 200 /\ JsonCheck(resp.body) \in {"found", "raises"}
    THEN Returned(TRUE, lat, reqs)
    ELSE Returned(FALSE, None, reqs)

\* Lines 203-234: the request through the proxy and the handlers of the
\* outer try.
MainRequest(net, lat, reqs) ==
    IF net.raises
    THEN IF IsTimeout(net.exc) \/ IsConnectionError(net.exc) \/ IsException(net.exc)
         THEN Returned(FALSE, None, reqs)
         ELSE Propagated(net.exc, reqs)
    ELSE Verdict(net, lat, reqs)

\* Faulty variant: the proxy is tested whatever the handshake gave.
TorGateMutAny(hs) == TRUE

\* Lines 186-193: the direct request to 127.0.0.1:9050 was refused.
TorGate(hs) == hs.raises /\ IsConnectionError(hs.exc)

\* self._test_proxy(proxy) for a proxy of type kind, when the request to the
\* local Tor port has outcome hs, the request through the proxy has outcome
\* net, and the time measured is lat.
test_proxy(kind, hs, net, lat) ==
    IF kind = "TOR"
    THEN IF TorGate(hs)
         THEN MainRequest(net, lat, <<"handshake", "probe">>)
         ELSE Returned(FALSE, None, <<"handshake">>)
    ELSE MainRequest(net, lat, <<"probe">>)

\* The outcomes of requests.get through a dead endpoint.
DeadOutcomes == {Raises(e) : e \in {"ConnectTimeout", "ConnectionError"}}

\* The results of _test_proxy on endpoint i.  The endpoints past ObjIds are
\* dead.
ProbeResults(i) ==
    LET nets == IF i \in ObjIds THEN NetOutcomes ELSE DeadOutcomes
        res == {test_proxy(TypeOf(i), Raises("ConnectionError"), net, ProbeLatency(i)) :
                    net \in nets}
    IN  {[ok |-> r.ok, rt |-> r.rt] : r \in res}

---------------------------------------------------------------------------
\* ProxyRotator.__init__ and _validate_proxies.

\* The lists a rotator is constructed from.
ConstructLists == {<<>>, <<1, 2>>, <<1, 2, 3>>}

\* ProxyRotator(proxies, min_proxies=m): lines 138-146, and the submit loop
\* of 153-157, which puts one _test_proxy call per proxy on the work queue.
Construct(list, m) ==
    /\ phase = "new"
    /\ proxies' = list
    /\ IF list = <<>>
       THEN /\ phase' = "ready"
            /\ val' = [NoVal EXCEPT !.min_proxies = m]
       ELSE /\ phase' = "validating"
            /\ val' = [NoVal EXCEPT !.queued = list, !.min_proxies = m]
    /\ last' = Call("init", None, FALSE, None, None)
    /\ UNCHANGED <<obj, now, hist, thr, ops>>

\* Faulty variant: one worker per proxy.
MaxWorkersMutLen == Len(proxies)

\* max_workers=min(10, len(self.proxies))
MaxWorkers == Min2(10, Len(proxies))

\* A free worker thread takes the next _test_proxy call off the work queue.
ProbeStart ==
    /\ phase = "validating"
    /\ val.queued # <<>>
    /\ Cardinality(val.running) < MaxWorkers
    /\ val' = [val EXCEPT !.queued = Tail(@),
                          !.running = @ \cup {Head(val.queued)},
                          !.started = Append(@, Head(val.queued))]
    /\ UNCHANGED <<obj, proxies, now, phase, last, hist, thr, ops>>

\* What the future of endpoint i can hold: the tuple _test_proxy returned,
\* or an exception raised in the worker.  _test_proxy catches every
\* Exception itself, so the second needs a _test_proxy replaced by a
\* subclass or a patch; the model lets it happen to the live endpoints.
FutureOutcomes(i) ==
    {[proxy |-> i, ok |-> r.ok, rt |-> r.rt, raised |-> FALSE] : r \in ProbeResults(i)}
        \cup (IF i \in ObjIds
              THEN {[proxy |-> i, ok |-> FALSE, rt |-> None, raised |-> TRUE]}
              ELSE {})

\* The _test_proxy call of endpoint i ends: its future completes.
ProbeFinish(i) ==
    /\ phase = "validating"
    /\ i \in val.running
    /\ \E d \in FutureOutcomes(i) :
        val' = [val EXCEPT !.running = @ \ {i},
                           !.done = @ \cup {d},
                           !.results = @ \cup {d}]
    /\ UNCHANGED <<obj, proxies, now, phase, last, hist, thr, ops>>

\* Faulty variant: every result goes to the first proxy of the list.
ResultOwnerMutFirst(d) == proxies[1]

\* Line 161: proxy = future_to_proxy[future]
ResultOwner(d) == d.proxy

\* Faulty variant: the exception is logged and nothing else.
OnProbeErrorMutSkip(p, t) == p

\* Lines 169-171: `except Exception as e: ... proxy.update_stats(False)`.
OnProbeError(p, t) == update_stats(p, FALSE, None, t)

\* One iteration of `for future in as_completed(...)`: lines 160-171.
\* future.result() returns the tuple or raises the exception of the worker.
ApplyResult(d) ==
    /\ phase = "validating"
    /\ d \in val.done
    /\ CanUpdate(obj[ResultOwner(d)], d.rt)
    /\ \E t \in ClockReadings :
        /\ now' = t
        /\ obj' = [obj EXCEPT ![ResultOwner(d)] =
                        IF d.raised THEN OnProbeError(@, t)
                        ELSE update_stats(@, d.ok, d.rt, t)]
    /\ val' = [val EXCEPT !.done = @ \ {d},
                          !.valid = IF d.ok THEN @ + 1 ELSE @]
    /\ UNCHANGED <<proxies, phase, last, hist, thr, ops>>

\* Faulty variant: the warning is logged at the threshold too.
WarnsMutLe == val.valid <= val.min_proxies

\* Line 175: if valid_count < self.min_proxies
Warns == val.valid < val.min_proxies

\* All futures are consumed: lines 173-176; the constructor returns.  The
\* return value recorded is whether the warning of line 176 is logged.
ValidateReturn ==
    /\ phase = "validating"
    /\ val.queued = <<>> /\ val.running = {} /\ val.done = {}
    /\ phase' = "ready"
    /\ val' = [NoVal EXCEPT !.min_proxies = val.min_proxies]
    /\ last' = Call("_validate_proxies", None, FALSE, None, Warns)
                   @@ [started |-> val.started, results |-> val.results]
    /\ UNCHANGED <<obj, proxies, now, hist, thr, ops>>

---------------------------------------------------------------------------
\* ProxyRotator.get_next_proxy.

\* A call on the constructed rotator (the model bounds their number).
Ready ==
    /\ phase = "ready"
    /\ ops > 0
    /\ ops' = ops - 1

\* 0.01 s, "avoid division by zero": line 256.
Epsilon == 1 * LatScale

\* Faulty variant: no 0.01 added.
MaxTimeMutNoEps(rel) == MaxOf({obj[rel[k]].response_time : k \in 1..Len(rel)})

\* max_time of line 256.
MaxTime(rel) == MaxOf({obj[rel[k]].response_time : k \in 1..Len(rel)}) + Epsilon

\* Line 257: (max_time - p.response_time) / max_time, as the numerator over
\* the common denominator MaxTime(rel).
BaseWeight(rel, k) == MaxTime(rel) - obj[rel[k]].response_time

\* random.uniform(0, 0.2), in tenths.
Jitters == {0, 1, 2}

\* Line 260: weight plus jitter, as the numerator over 10 * MaxTime(rel).
\* Line 264 divides every weight by the same positive total.
JitteredWeights(rel, jit) ==
    LET max_time == MaxTime(rel)
    IN  [k \in 1..Len(rel) |->
            10 * (max_time - obj[rel[k]].response_time) + jit[k] * max_time]

\* Lines 272-279.
FirstThree(seq) == SubSeq(seq, 1, Min2(3, Len(seq)))

\* Faulty variant: the candidates are not cut to three.
LruPickMutNoCut(rel) == SortedBy(SortedBy(rel, LastUsedKey), RateDescKey)[1]

LruPick(rel) == SortedBy(FirstThree(SortedBy(rel, LastUsedKey)), RateDescKey)[1]

\* The return value of get_next_proxy, with the endpoints the call could
\* have returned in the state it was made in.
Selected(i, support) ==
    Call("get_next_proxy", None, FALSE, None, i) @@ [support |-> support]

\* Lines 238-239.
NextEmpty ==
    /\ proxies = <<>>
    /\ last' = Selected(None, {})
    /\ UNCHANGED proxies

\* Faulty variant: the pool is not sorted.
FallbackOrderMutKeep(seq) == seq

\* Line 246: self.proxies.sort(key=lambda p: p.last_used)
FallbackOrder(seq) == SortedBy(seq, LastUsedKey)

\* Faulty variant: nothing is returned during an outage.
FallbackPickMutNone(seq) == None

\* Faulty variant: the most recently used proxy is returned.
FallbackPickMutLast(seq) == seq[Len(seq)]

\* Line 248: return self.proxies[0]
FallbackPick(seq) == seq[1]

\* Lines 244-248.
NextFallback ==
    /\ proxies # <<>>
    /\ ReliableProxies = <<>>
    /\ proxies' = FallbackOrder(proxies)
    /\ last' = Selected(FallbackPick(proxies'), {FallbackPick(proxies')})

\* random.choices(reliable_proxies, weights): entry k can be drawn when
\* some jitter draw gives it a positive share of a positive total.
CanDraw(rel, k) ==
    \E jit \in [1..Len(rel) -> Jitters] :
        LET w == JitteredWeights(rel, jit)
        IN  SumSeq(w) > 0 /\ w[k] > 0

\* Lines 253-269.
NextWeighted ==
    /\ proxies # <<>>
    /\ ReliableProxies # <<>>
    /\ \A k \in 1..Len(ReliableProxies) : obj[ReliableProxies[k]].response_time # None
    /\ LET rel == ReliableProxies
           support == {rel[j] : j \in {j \in 1..Len(rel) : CanDraw(rel, j)}}
       IN  \E k \in 1..Len(rel) :
               /\ rel[k] \in support
               /\ last' = Selected(rel[k], support)
    /\ UNCHANGED proxies

\* Lines 272-281.
NextLru ==
    /\ proxies # <<>>
    /\ ReliableProxies # <<>>
    /\ \E k \in 1..Len(ReliableProxies) : obj[ReliableProxies[k]].response_time = None
    /\ last' = Selected(LruPick(ReliableProxies), {LruPick(ReliableProxies)})
    /\ UNCHANGED proxies

\* The branches of get_next_proxy: lines 238-281.
SelectBranch ==
    \/ NextEmpty
    \/ NextFallback
    \/ NextWeighted
    \/ NextLru

get_next_proxy ==
    /\ Ready
    /\ SelectBranch
    /\ UNCHANGED <<obj, now, phase, val, hist, thr>>

---------------------------------------------------------------------------
\* report_proxy_result, add_proxy, remove_proxy, get_stats.

\* What callers report: a success with its latency, or a failure.
ReportArgs == {[ok |-> TRUE, rt |-> 10], [ok |-> FALSE, rt |-> None]}

\* Lines 285-287.
ReportEffect(i, success, rt) ==
    IF InPool(i)
    THEN /\ CanUpdate(obj[i], rt)
         /\ \E t \in ClockReadings :
             /\ now' = t
             /\ obj' = [obj EXCEPT ![i] = update_stats(@, success, rt, t)]
    ELSE UNCHANGED <<obj, now>>

report_proxy_result(i, success, rt) ==
    /\ Ready
    /\ ReportEffect(i, success, rt)
    /\ last' = Call("report_proxy_result", i, success, rt, None)
    /\ UNCHANGED <<proxies, phase, val, hist, thr>>

\* Lines 291-293: the proxy is "already in pool".
AddDuplicate(i, validate) ==
    /\ InPool(i)
    /\ last' = Call("add_proxy", i, validate, None, FALSE)
    /\ UNCHANGED <<obj, proxies, now>>

\* Faulty variant: the endpoint is appended whatever the probe says.
AddValidatedMutAlways(i) ==
    /\ ~InPool(i)
    /\ \E r \in ProbeResults(i) :
        /\ CanUpdate(obj[i], r.rt)
        /\ \E t \in ClockReadings :
            /\ now' = t
            /\ obj' = [obj EXCEPT ![i] = update_stats(@, r.ok, r.rt, t)]
        /\ proxies' = Append(proxies, i)
        /\ last' = Call("add_proxy", i, TRUE, None, TRUE)

\* Lines 295-305 with validate=True.
AddValidated(i) ==
    /\ ~InPool(i)
    /\ \E r \in ProbeResults(i) :
        /\ CanUpdate(obj[i], r.rt)
        /\ \E t \in ClockReadings :
            /\ now' = t
            /\ obj' = [obj EXCEPT ![i] = update_stats(@, r.ok, r.rt, t)]
        /\ proxies' = IF r.ok THEN Append(proxies, i) ELSE proxies
        /\ last' = Call("add_proxy", i, TRUE, None, r.ok)

\* Lines 303-305 with validate=False.
AddUnvalidated(i) ==
    /\ ~InPool(i)
    /\ proxies' = Append(proxies, i)
    /\ last' = Call("add_proxy", i, FALSE, None, TRUE)
    /\ UNCHANGED <<obj, now>>

add_proxy(i) ==
    /\ Ready
    /\ \/ \E validate \in BOOLEAN : AddDuplicate(i, validate)
       \/ AddValidated(i)
       \/ AddUnvalidated(i)
    /\ UNCHANGED <<phase, val, hist, thr>>

\* list.remove(x): removes the first element that is x or equals x.
RemoveFirst(seq, i) ==
    LET k == CHOOSE k \in 1..Len(seq) :
                 /\ seq[k] = i \/ ProxyEq(obj[seq[k]], obj[i])
                 /\ \A j \in 1..(k - 1) : ~(seq[j] = i \/ ProxyEq(obj[seq[j]], obj[i]))
    IN  SubSeq(seq, 1, k - 1) \o SubSeq(seq, k + 1, Len(seq))

\* Faulty variant: the removed proxy gets its statistics reset.
remove_proxy_mut_reset(i) ==
    /\ Ready
    /\ IF InPool(i)
       THEN /\ proxies' = RemoveFirst(proxies, i)
            /\ obj' = [obj EXCEPT ![i] = Fresh(i)]
            /\ last' = Call("remove_proxy", i, FALSE, None, TRUE)
       ELSE /\ last' = Call("remove_proxy", i, FALSE, None, FALSE)
            /\ UNCHANGED <<proxies, obj>>
    /\ UNCHANGED <<now, phase, val, hist, thr>>

\* Lines 309-313.
remove_proxy(i) ==
    /\ Ready
    /\ IF InPool(i)
       THEN /\ proxies' = RemoveFirst(proxies, i)
            /\ last' = Call("remove_proxy", i, FALSE, None, TRUE)
       ELSE /\ last' = Call("remove_proxy", i, FALSE, None, FALSE)
            /\ UNCHANGED proxies
    /\ UNCHANGED <<obj, now, phase, val, hist, thr>>

\* The country codes callers ask for.
CountryArgs == {"us", "US", "Us", "de"}

\* Faulty variant: the argument is compared as it was given.
UpperMutAsGiven(c) == c

\* str.upper() on the country codes of the model.
Upper(c) ==
    IF c \in {"us", "Us", "uS", "US"} THEN "US"
    ELSE IF c \in {"de", "De", "dE", "DE"} THEN "DE"
    ELSE c

\* Line 317: the reliable proxies whose country is country_code.upper().
\* Faulty variant: no reliability filter.
country_proxies_mut_any(c) ==
    SelectSeq(proxies, LAMBDA i : obj[i].country = Upper(c))

\* Line 317.
country_proxies(c) ==
    SelectSeq(proxies, LAMBDA i : obj[i].country = Upper(c) /\ is_reliable(obj[i]))

\* key=lambda p: (p.success_rate, -p.last_used), reverse=True: descending in
\* the pair is ascending in (-success_rate, last_used), one integer here
\* since 0 <= last_used <= MaxClock.
RateRecencyKey ==
    [i \in ObjIds |-> (0 - obj[i].success_rate) * (MaxClock + 1) + obj[i].last_used]

\* Lines 319-325: the value get_proxy_by_country(c) returns.
CountryChoice(c) ==
    IF country_proxies(c) = <<>> THEN None
    ELSE SortedBy(country_proxies(c), RateRecencyKey)[1]

get_proxy_by_country(c) ==
    /\ Ready
    /\ last' = Call("get_proxy_by_country", None, FALSE, None, CountryChoice(c))
                   @@ [country |-> c]
    /\ UNCHANGED <<obj, proxies, now, phase, val, hist, thr>>

\* Line 341.
ReliableCount == Cardinality({k \in 1..Len(proxies) : is_reliable(obj[proxies[k]])})

\* Line 344.
ResponseTimes ==
    LET known == SelectSeq(proxies, LAMBDA i : obj[i].response_time # None)
    IN  [k \in 1..Len(known) |-> obj[known[k]].response_time]

\* sum(xs) / len(xs) as the fraction it is; 0 is 0/1.
Mean(xs) == IF xs = <<>> THEN [num |-> 0, den |-> 1]
            ELSE [num |-> SumSeq(xs), den |-> Len(xs)]

\* Faulty variant: proxies without a country are counted under "".
CountryDistributionMutAll ==
    [c \in {obj[i].country : i \in Range(proxies)} |->
        Cardinality({k \in 1..Len(proxies) : obj[proxies[k]].country = c})]

\* Lines 357-363: proxies per country, for the proxies that have one.
CountryDistribution ==
    [c \in {obj[i].country : i \in {j \in Range(proxies) : obj[j].country # ""}} |->
        Cardinality({k \in 1..Len(proxies) : obj[proxies[k]].country = c})]

\* Lines 341-355.
StatsOf ==
    [total |-> Len(proxies),
     reliable |-> ReliableCount,
     unreliable |-> Len(proxies) - ReliableCount,
     avg_response_time |-> Mean(ResponseTimes),
     avg_success_rate |-> Mean([k \in 1..Len(proxies) |-> obj[proxies[k]].success_rate]),
     country_distribution |-> CountryDistribution]

get_stats ==
    /\ Ready
    /\ last' = Call("get_stats", None, FALSE, None, StatsOf)
    /\ UNCHANGED <<obj, proxies, now, phase, val, hist, thr>>

---------------------------------------------------------------------------
\* Specification of a rotator: fresh Proxy objects, the constructor with its
\* validation batch, then calls on the rotator.

Init ==
    /\ obj = [i \in ObjIds |-> Fresh(i)]
    /\ proxies = <<>>
    /\ now = 1
    /\ phase = "new"
    /\ val = NoVal
    /\ last = NoCall
    /\ hist = <<>>
    /\ thr = NoThreads
    /\ ops = MaxOps

Next ==
    \/ \E list \in ConstructLists : Construct(list, min_proxies)
    \/ ProbeStart
    \/ \E i \in ObjIds : ProbeFinish(i)
    \/ \E d \in val.done : ApplyResult(d)
    \/ ValidateReturn
    \/ get_next_proxy
    \/ \E i \in ObjIds, a \in ReportArgs : report_proxy_result(i, a.ok, a.rt)
    \/ \E i \in ObjIds : add_proxy(i)
    \/ \E i \in ObjIds : remove_proxy(i)
    \/ \E c \in CountryArgs : get_proxy_by_country(c)
    \/ get_stats

Spec == Init /\ [][Next]_vars

---------------------------------------------------------------------------
\* Specification of the constructor: fresh Proxy objects and one
\* ProxyRotator(list, min_proxies=m) call with its validation batch, for
\* the lists above and for a list longer than the ten workers.

\* The large list: the objects past ObjIds.
LargeList == [k \in 1..LargePool |-> Cardinality(ObjIds) + k]

AllIds == ObjIds \cup Range(LargeList)

MinProxiesArgs == {1, 2}

\* The arguments of the constructor: the large list comes with the default
\* min_proxies.
ValidateArgs ==
    {[list |-> l, m |-> m] : l \in ConstructLists, m \in MinProxiesArgs}
        \cup {[list |-> LargeList, m |-> min_proxies]}

InitValidate ==
    /\ obj = [i \in AllIds |-> Fresh(i)]
    /\ proxies = <<>>
    /\ now = MaxClock
    /\ phase = "new"
    /\ val = NoVal
    /\ last = NoCall
    /\ hist = <<>>
    /\ thr = NoThreads
    /\ ops = 0

NextValidate ==
    \/ \E a \in ValidateArgs : Construct(a.list, a.m)
    \/ ProbeStart
    \/ \E i \in AllIds : ProbeFinish(i)
    \/ \E d \in val.done : ApplyResult(d)
    \/ ValidateReturn

SpecValidate == InitValidate /\ [][NextValidate]_vars

\* The constructor has returned.
Constructed == phase = "ready"

\* C18: the constructor of a non-empty list does not return before
\* _validate_proxies has (an empty list starts no probe), and when
\* _validate_proxies returns every proxy of the list has had exactly one
\* update_stats, with the result of its own probe.
C18_ValidatedOnConstruction ==
    /\ (last.op = "init" /\ proxies # <<>>) => ~Constructed
    /\ (Constructed /\ proxies = <<>>) =>
           /\ last.op = "init"
           /\ \A i \in AllIds : obj[i] = Fresh(i)
    /\ (Constructed /\ proxies # <<>>) =>
           /\ last.op = "_validate_proxies"
           /\ \A i \in AllIds \ Range(proxies) : obj[i] = Fresh(i)
           /\ \A i \in Range(proxies) :
                /\ Cardinality({r \in last.results : r.proxy = i}) = 1
                /\ \A r \in last.results :
                       r.proxy = i =>
                          /\ r.ok => r.rt = ProbeLatency(i)
                          /\ obj[i] = update_stats(Fresh(i), r.ok, r.rt, obj[i].last_used)

\* The constructor returned for a list of three: the probe of the first
\* succeeded, the probe of the second failed.
C18_Witness ==
    /\ Constructed
    /\ proxies = <<1, 2, 3>>
    /\ obj[1].response_time = ProbeLatency(1) * LatScale
    /\ obj[2].failed_attempts = 1
    /\ obj[3].n = 1

\* C21: if the probe of one proxy of a batch raises an exception, that
\* proxy gets exactly one update_stats(False, None), every other proxy of
\* the list gets exactly the result of its own probe, and _validate_proxies
\* returns: the loop goes on to the next future after the exception.
C21_ProbeErrorIsolated ==
    (phase # "new" /\ proxies # <<>>) =>
        /\ \A d \in val.done : d.raised => CanUpdate(obj[d.proxy], None)
        /\ last.op = "_validate_proxies" =>
              /\ Constructed
              /\ \A i \in Range(proxies) :
                     \E r \in last.results :
                         /\ r.proxy = i
                         /\ \A q \in last.results : q.proxy = i => q = r
                         /\ obj[i].n = 1
                         /\ r.raised =>
                               /\ obj[i].failed_attempts = 1
                               /\ obj[i].success_rate = 0
                               /\ obj[i].response_time = None
                         /\ ~r.raised =>
                               obj[i] = update_stats(Fresh(i), r.ok, r.rt, obj[i].last_used)

\* The probe of the second proxy of three raised; the first and the third
\* got their successful results and the constructor returned.
C21_Witness ==
    /\ Constructed
    /\ last.op = "_validate_proxies"
    /\ proxies = <<1, 2, 3>>
    /\ [proxy |-> 2, ok |-> FALSE, rt |-> None, raised |-> TRUE] \in last.results
    /\ obj[2].failed_attempts = 1
    /\ obj[1].response_time = ProbeLatency(1) * LatScale
    /\ obj[3].response_time = ProbeLatency(3) * LatScale

\* The number of times i occurs in seq.
Count(seq, i) == Cardinality({k \in 1..Len(seq) : seq[k] = i})

\* C19: at every moment of _validate_proxies at most min(10, len(proxies))
\* probes are in flight, and each proxy of the list is probed exactly once
\* per batch.
C19_BoundedProbes ==
    /\ Cardinality(val.running) <= 10
    /\ Cardinality(val.running) <= Len(proxies)
    /\ \A i \in AllIds : Count(val.started, i) <= 1
    /\ last.op = "_validate_proxies" =>
           /\ \A i \in Range(proxies) : Count(last.started, i) = 1
           /\ Len(last.started) = Len(proxies)

\* Ten probes are in flight and a proxy of the list waits for a worker.
C19_Witness ==
    /\ phase = "validating"
    /\ Cardinality(val.running) = 10
    /\ val.queued # <<>>

\* The proxies of the list that pass is_reliable.
ReliableNow == {i \in Range(proxies) : is_reliable(obj[i])}

---------------------------------------------------------------------------
\* Specification of selection: a rotator whose endpoints have been in use,
\* and a caller that asks for a proxy and reports how it went.

Failed(rt) == [ok |-> FALSE, rt |-> rt]
Succeeded(rt) == [ok |-> TRUE, rt |-> rt]

\* Proxy object i after the update_stats calls of `outcomes`, the last one
\* when time.time() read t.
RECURSIVE Replay(_, _, _)
Replay(i, outcomes, t) ==
    IF outcomes = <<>> THEN Fresh(i)
    ELSE LET m == Len(outcomes)
         IN  update_stats(Replay(i, SubSeq(outcomes, 1, m - 1), t),
                          outcomes[m].ok, outcomes[m].rt, t)

\* The histories endpoints of the pool start with: never used; reliable
\* with a score of 0; unreliable by failures or by score; reliable with a
\* score above 0.7; with and without a latency estimate (0.1 s, 0.2 s,
\* 0.3 s).
Histories ==
    {[h |-> <<>>, t |-> 0],
     [h |-> <<Failed(None)>>, t |-> 1],
     [h |-> <<Failed(None), Failed(None), Failed(None)>>, t |-> 1],
     [h |-> <<Failed(None), Failed(None), Failed(None)>>, t |-> 2],
     [h |-> <<Succeeded(10)>>, t |-> 1],
     [h |-> <<Succeeded(None), Succeeded(None), Succeeded(None), Succeeded(None)>>, t |-> 1],
     [h |-> <<Succeeded(10), Succeeded(None), Succeeded(None), Succeeded(None)>>, t |-> 1],
     [h |-> <<Succeeded(20), Succeeded(None), Succeeded(None), Succeeded(None),
              Succeeded(None)>>, t |-> 2],
     [h |-> <<Failed(30)>>, t |-> 2]}

InitSelect ==
    /\ \E k \in 0..Cardinality(ObjIds) : proxies = [j \in 1..k |-> j]
    /\ \E past \in [Range(proxies) -> Histories] :
        obj = [i \in ObjIds |->
                  IF i \in Range(proxies) THEN Replay(i, past[i].h, past[i].t)
                  ELSE Fresh(i)]
    /\ now = 2
    /\ phase = "ready"
    /\ val = NoVal
    /\ last = NoCall
    /\ hist = <<>>
    /\ thr = NoThreads
    /\ ops = MaxCalls

\* The caller reports the outcome of using the proxy it was handed.
ReportReturned(success, rt) ==
    /\ last.op = "get_next_proxy"
    /\ last.ret # None
    /\ report_proxy_result(last.ret, success, rt)

NextSelect ==
    \/ get_next_proxy
    \/ \E a \in ReportArgs : ReportReturned(a.ok, a.rt)
    \/ \E c \in CountryArgs : get_proxy_by_country(c)

SpecSelect == InitSelect /\ [][NextSelect]_vars

---------------------------------------------------------------------------
\* Specification of a release: a rotator whose endpoints have been in use,
\* and a caller that asks for a proxy, removes the proxy it was handed from
\* the pool, and then reports how the request through it went.

RemoveReturned ==
    /\ last.op = "get_next_proxy"
    /\ last.ret # None
    /\ remove_proxy(last.ret)

ReportRemoved(success, rt) ==
    /\ last.op = "remove_proxy"
    /\ report_proxy_result(last.proxy, success, rt)

NextRelease ==
    \/ get_next_proxy
    \/ RemoveReturned
    \/ \E a \in ReportArgs : ReportRemoved(a.ok, a.rt)

SpecRelease == InitSelect /\ [][NextRelease]_vars

\* C14: when an endpoint returned by get_next_proxy has been removed with
\* remove_proxy and the caller then reports its outcome, the report leaves
\* the order of the pool and the statistics of every endpoint still in the
\* pool unchanged.
C14_ReportAfterRemove ==
    [][(last.op = "remove_proxy" /\ last'.op = "report_proxy_result"
            /\ last'.proxy = last.proxy) =>
        /\ proxies' = proxies
        /\ \A i \in Range(proxies) : obj'[i] = obj[i]
    ]_vars

---------------------------------------------------------------------------
\* Claims about get_next_proxy, checked under SpecSelect.  get_next_proxy
\* changes no statistics, so the state after the call shows the statistics
\* the call saw.

NextReturned == last.op = "get_next_proxy"

SomeReliable == \E i \in Range(proxies) : is_reliable(obj[i])

\* The position of pool member i in self.proxies.
Pos(i) == CHOOSE k \in 1..Len(proxies) : proxies[k] = i

\* C5: get_next_proxy returns None iff the pool is empty; on a non-empty
\* pool it returns a member of the pool, whatever the statistics.
C5_NoneIffEmpty ==
    NextReturned =>
        /\ last.ret = None <=> proxies = <<>>
        /\ proxies # <<>> => last.ret \in Range(proxies)

\* get_next_proxy returned a member of a pool of several endpoints none of
\* which is reliable.
C5_Witness ==
    /\ NextReturned
    /\ Len(proxies) >= 2
    /\ ~SomeReliable
    /\ last.ret \in Range(proxies)

\* C6: when no endpoint of a non-empty pool is reliable, get_next_proxy
\* returns an endpoint whose last_used is the minimum over the pool, and a
\* call that directly follows another get_next_proxy call returns the same
\* endpoint.
C6_OutageLeastRecentlyUsed ==
    [][(last'.op = "get_next_proxy" /\ proxies # <<>> /\ ~SomeReliable) =>
        /\ last'.ret \in Range(proxies)
        /\ \A i \in Range(proxies) : obj[last'.ret].last_used <= obj[i].last_used
        /\ last.op = "get_next_proxy" => last'.ret = last.ret
    ]_vars

\* Two calls in a row during an outage, on a pool whose first endpoint was
\* not the least recently used one.
C6_Witness ==
    /\ NextReturned
    /\ ops = MaxCalls - 2
    /\ ~SomeReliable
    /\ last.ret # 1
    /\ 1 \in Range(proxies)
    /\ obj[1].last_used > obj[last.ret].last_used

\* C7: whenever some endpoint of the pool is reliable, get_next_proxy
\* returns a reliable endpoint.
C7_ReliablePreferred ==
    (NextReturned /\ SomeReliable) =>
        /\ last.ret \in Range(proxies)
        /\ is_reliable(obj[last.ret])

\* A reliable endpoint was returned although an unreliable one was used
\* less recently and has the higher score.
C7_Witness ==
    /\ NextReturned
    /\ last.ret \in Range(proxies)
    /\ is_reliable(obj[last.ret])
    /\ \E i \in Range(proxies) :
        /\ ~is_reliable(obj[i])
        /\ obj[i].last_used < obj[last.ret].last_used
        /\ obj[i].success_rate > obj[last.ret].success_rate

\* The reliable endpoints of the pool, and whether one lacks a latency.
ReliableSet == {i \in Range(proxies) : is_reliable(obj[i])}
LatencyIncomplete == \E i \in ReliableSet : obj[i].response_time = None

\* i was used less recently than j (equal last_used: i is earlier in the pool).
UsedBefore(i, j) ==
    \/ obj[i].last_used < obj[j].last_used
    \/ obj[i].last_used = obj[j].last_used /\ Pos(i) < Pos(j)

\* The min(3, number of reliable) least recently used reliable endpoints.
LeastRecentThree ==
    {i \in ReliableSet : Cardinality({j \in ReliableSet : UsedBefore(j, i)}) < 3}

\* Those of them with the highest success_rate.
BestOfThree ==
    {i \in LeastRecentThree :
        \A j \in LeastRecentThree : obj[j].success_rate <= obj[i].success_rate}

\* C8 as stated: with incomplete latency data get_next_proxy returns the
\* endpoint with the highest success_rate among the three least recently
\* used reliable endpoints, the first in pool order when several share it.
C8_TieByPoolOrder ==
    (NextReturned /\ LatencyIncomplete) =>
        /\ last.ret \in BestOfThree
        /\ \A j \in BestOfThree : Pos(last.ret) <= Pos(j)

\* C8 as amended: ... when several share the highest success_rate, the least
\* recently used of them is returned, and the first in pool order only
\* among those with equal last_used as well.
C8_TieByLeastRecentlyUsed ==
    (NextReturned /\ LatencyIncomplete) =>
        /\ last.ret \in BestOfThree
        /\ \A j \in BestOfThree : j = last.ret \/ UsedBefore(last.ret, j)

\* Four reliable endpoints: the most recently used one has the highest
\* score and is left out, and of the others, equal in score, the one
\* returned is not the first of the pool.
C8_Witness ==
    /\ NextReturned /\ LatencyIncomplete
    /\ Cardinality(ReliableSet) = 4
    /\ \E i \in ReliableSet \ LeastRecentThree :
           obj[i].success_rate > obj[last.ret].success_rate
    /\ \E j \in BestOfThree : Pos(j) < Pos(last.ret)

\* The reliable endpoints all have a latency estimate.
LatencyComplete == ReliableSet # {} /\ ~LatencyIncomplete

\* The reliable endpoints have exactly the latencies 0.1 s, 0.2 s, 0.3 s.
Latencies123 ==
    /\ Len(ReliableProxies) = 3
    /\ {obj[i].response_time : i \in ReliableSet} = {10 * LatScale, 20 * LatScale, 30 * LatScale}

\* C9: with complete latency data get_next_proxy draws only from the
\* reliable endpoints; every weight before jitter is strictly positive; a
\* strictly lower latency has a strictly larger weight before jitter; every
\* reliable endpoint can be drawn; and for latencies 0.1 s, 0.2 s, 0.3 s the
\* fastest endpoint's share exceeds the slowest's for every jitter draw.
C9_LatencyWeights ==
    (NextReturned /\ LatencyComplete) =>
        LET rel == ReliableProxies
            K == 1..Len(rel)
        IN  /\ last.ret \in ReliableSet
            /\ \A k \in K : BaseWeight(rel, k) > 0
            /\ \A j, k \in K :
                  obj[rel[j]].response_time < obj[rel[k]].response_time
                      => BaseWeight(rel, j) > BaseWeight(rel, k)
            /\ last.support = ReliableSet
            /\ Latencies123 =>
                  \A jit \in [K -> Jitters] : \A f, sl \in K :
                      (/\ obj[rel[f]].response_time = 10 * LatScale
                       /\ obj[rel[sl]].response_time = 30 * LatScale)
                          => JitteredWeights(rel, jit)[f] > JitteredWeights(rel, jit)[sl]

\* With latencies 0.1 s, 0.2 s, 0.3 s the slowest endpoint was returned.
C9_Witness ==
    /\ NextReturned /\ LatencyComplete
    /\ Latencies123
    /\ obj[last.ret].response_time = 30 * LatScale
    /\ Cardinality(last.support) = 3

\* A country code without its case.
Lower(c) ==
    IF c \in {"us", "Us", "uS", "US"} THEN "us"
    ELSE IF c \in {"de", "De", "dE", "DE"} THEN "de"
    ELSE c

CountryReturned == last.op = "get_proxy_by_country"

\* C15: get_proxy_by_country returns the same result for every upper/lower
\* case spelling of its argument.
C15_ArgumentCaseInsensitive ==
    CountryReturned =>
        \A d \in CountryArgs :
            Lower(d) = Lower(last.country) => CountryChoice(d) = last.ret

\* get_proxy_by_country("us") returned an endpoint.
C15_Witness ==
    /\ CountryReturned
    /\ last.country = "us"
    /\ last.ret # None
    /\ CountryChoice("US") = last.ret

\* The reliable endpoints whose country is c, ignoring case on both sides.
CountryMatches(c) ==
    {i \in Range(proxies) : is_reliable(obj[i]) /\ Lower(obj[i].country) = Lower(c)}

\* C16: get_proxy_by_country(c) returns None iff no reliable endpoint has a
\* country equal to c ignoring the case of both; otherwise it returns a
\* reliable matching endpoint with the highest success_rate and, among
\* those, the smallest last_used.
C16_CountryIgnoringCase ==
    CountryReturned =>
        LET M == CountryMatches(last.country)
        IN  /\ last.ret = None <=> M = {}
            /\ M # {} =>
                /\ last.ret \in M
                /\ \A j \in M : obj[j].success_rate <= obj[last.ret].success_rate
                /\ \A j \in M : obj[j].success_rate = obj[last.ret].success_rate
                                   => obj[last.ret].last_used <= obj[j].last_used


\* The pool is in a total outage: it has proxies and none is reliable.
Outage == proxies # <<>> /\ ReliableProxies = <<>>

\* C37: during an outage of a pool of at least two proxies, when
\* get_next_proxy returned e and the caller reported a failure for e at a
\* clock reading later than the one before, e is the most recently used
\* proxy of the pool and the following get_next_proxy returns another one.
C37_OutageRotates ==
    [][/\ (Outage /\ Len(proxies) >= 2 /\ last.op = "get_next_proxy"
              /\ last'.op = "report_proxy_result" /\ ~last'.success /\ now' > now) =>
           /\ last'.proxy = last.ret
           /\ \A j \in Range(proxies) \ {last.ret} :
                  obj'[j].last_used < obj'[last.ret].last_used
       /\ (Outage /\ Len(proxies) >= 2 /\ last.op = "report_proxy_result" /\ ~last.success
              /\ (\A j \in Range(proxies) \ {last.proxy} :
                      obj[j].last_used < obj[last.proxy].last_used)
              /\ last'.op = "get_next_proxy") =>
           /\ last'.ret # last.proxy
           /\ last'.ret \in Range(proxies)
           /\ \A j \in Range(proxies) : obj[last'.ret].last_used <= obj[j].last_used
    ]_vars

\* An outage of three proxies: one was returned, a failure was reported for
\* it at a later clock reading, and the next call returned another proxy.
C37_Witness ==
    /\ Outage /\ Len(proxies) = 3
    /\ ops = MaxCalls - 3
    /\ last.op = "get_next_proxy"
    /\ \E e \in Range(proxies) \ {last.ret} :
          /\ obj[e].last_used = now
          /\ \A j \in Range(proxies) \ {e} : obj[j].last_used < now

\* C38: get_next_proxy leaves self.proxies as it is, in every branch: the
\* same proxies in the same order.
C38_NextKeepsPool ==
    [][last'.op = "get_next_proxy" => proxies' = proxies]_vars

---------------------------------------------------------------------------
\* Claims about the rotator, checked under Spec.

\* Endpoint i has had one update_stats call, a success, since it was fresh.
OneSuccess(i) ==
    /\ obj[i].n = 1
    /\ obj[i].failed_attempts = 0
    /\ obj[i].success_rate > 0

\* get_stats is the first call on a rotator constructed from fresh
\* endpoints all of whose validation probes succeeded.
StatsAfterCleanValidation ==
    /\ last.op = "get_stats"
    /\ ops = MaxOps - 1
    /\ proxies # <<>>
    /\ \A i \in Range(proxies) : OneSuccess(i)

\* C1: for a pool built from fresh endpoints in which every probe succeeds,
\* after the validation get_stats reports reliable = total (3 for three
\* endpoints) and avg_response_time equal to the mean of the probe
\* latencies.
C1_AllReliableAfterValidation ==
    StatsAfterCleanValidation =>
        /\ last.ret.total = Len(proxies)
        /\ last.ret.reliable = last.ret.total
        /\ Len(proxies) = 3 => last.ret.reliable = 3
        /\ last.ret.avg_response_time.num * Len(proxies) =
               last.ret.avg_response_time.den *
                   SumSeq([k \in 1..Len(proxies) |-> ProbeLatency(proxies[k]) * LatScale])

\* C10: report_proxy_result(e, success, rt) changes no state at all when e
\* is not one of the objects in the pool, even if a member has equal fields;
\* when e is in the pool it applies exactly one update_stats(success, rt) to
\* e and changes no other endpoint.
C10_ReportOnlyMembers ==
    [][last'.op = "report_proxy_result" =>
        LET e == last'.proxy
        IN  /\ proxies' = proxies
            /\ \A i \in ObjIds \ {e} : obj'[i] = obj[i]
            /\ IF e \in Range(proxies)
               THEN \E t \in 1..MaxClock :
                        obj'[e] = update_stats(obj[e], last'.success, last'.rt, t)
               ELSE obj'[e] = obj[e]
    ]_vars

\* Endpoints i and j have the same host and port.
SameHostPort(i, j) == obj[i].host = obj[j].host /\ obj[i].port = obj[j].port

\* Some member of the pool has the host and port of endpoint e.
HostPortInPool(e) == \E j \in Range(proxies) : SameHostPort(e, j)

\* C11: add_proxy of an endpoint whose host and port equal those of a
\* member of the pool returns False and leaves the pool as it is, whatever
\* the statistics of the two endpoints are.
C11_AddRejectsSameHostPort ==
    [][(last'.op = "add_proxy" /\ HostPortInPool(last'.proxy)) =>
        /\ last'.ret = FALSE
        /\ proxies' = proxies
    ]_vars

\* C12: for an endpoint e no member has the host and port of, add_proxy(e,
\* validate=True) probes e once and applies the result of that probe to e;
\* if the probe failed it returns False and the pool is unchanged, if it
\* succeeded e is appended at the end and True is returned.  add_proxy(e,
\* validate=False) makes no probe, leaves the statistics of e unchanged,
\* appends e at the end and returns True.
C12_AddNonDuplicate ==
    [][(last'.op = "add_proxy" /\ ~HostPortInPool(last'.proxy)) =>
        LET e == last'.proxy
        IN  /\ \A i \in ObjIds \ {e} : obj'[i] = obj[i]
            /\ IF last'.success
               THEN \E ok \in BOOLEAN, t \in 1..MaxClock :
                       /\ obj'[e] = update_stats(obj[e], ok,
                                        IF ok THEN ProbeLatency(e) ELSE None, t)
                       /\ last'.ret = ok
                       /\ proxies' = IF ok THEN proxies \o <<e>> ELSE proxies
               ELSE /\ obj'[e] = obj[e]
                    /\ last'.ret = TRUE
                    /\ proxies' = proxies \o <<e>>
    ]_vars

\* A validated add_proxy whose probe succeeded put the endpoint at the end
\* of a pool that had members already.
C12_Witness ==
    /\ last.op = "add_proxy" /\ last.success /\ last.ret = TRUE
    /\ Len(proxies) >= 3
    /\ proxies[Len(proxies)] = last.proxy
    /\ \A k \in 1..(Len(proxies) - 1) : ~SameHostPort(proxies[k], last.proxy)
    /\ obj[last.proxy].n = 1
    /\ obj[last.proxy].response_time = ProbeLatency(last.proxy) * LatScale

\* C13: remove_proxy(e) returns True and removes exactly the object e when
\* e is in the pool, the other endpoints keeping their order; it returns
\* False and leaves the pool unchanged when e is not in the pool.
C13_RemoveByIdentity ==
    [][last'.op = "remove_proxy" =>
        LET e == last'.proxy
        IN  IF e \in Range(proxies)
            THEN /\ last'.ret = TRUE
                 /\ proxies' = SelectSeq(proxies, LAMBDA i : i # e)
            ELSE /\ last'.ret = FALSE
                 /\ proxies' = proxies
    ]_vars

\* The sum of f over the set S.
RECURSIVE SumOver(_, _)
SumOver(S, f) ==
    IF S = {} THEN 0
    ELSE LET x == CHOOSE x \in S : TRUE
         IN  f[x] + SumOver(S \ {x}, f)

\* C17: get_stats reports total = size of the pool, reliable = number of
\* members passing is_reliable, reliable + unreliable = total, the mean
\* response_time over exactly the members that have one (0 when none has),
\* the mean success_rate over all members (0 for the empty pool), and a
\* country distribution whose counts sum to the number of members that have
\* a country.
C17_StatsConsistent ==
    last.op = "get_stats" =>
        LET st == last.ret
            K == 1..Len(proxies)
            known == {k \in K : obj[proxies[k]].response_time # None}
            cd == st.country_distribution
        IN  /\ st.total = Len(proxies)
            /\ st.reliable = Cardinality({k \in K : is_reliable(obj[proxies[k]])})
            /\ st.reliable + st.unreliable = st.total
            /\ st.avg_response_time.den > 0
            /\ IF known = {} THEN st.avg_response_time.num = 0
               ELSE st.avg_response_time.num * Cardinality(known) =
                        st.avg_response_time.den *
                            SumOver(known, [k \in K |-> obj[proxies[k]].response_time])
            /\ st.avg_success_rate.den > 0
            /\ IF K = {} THEN st.avg_success_rate.num = 0
               ELSE st.avg_success_rate.num * Len(proxies) =
                        st.avg_success_rate.den *
                            SumOver(K, [k \in K |-> obj[proxies[k]].success_rate])
            /\ SumOver(DOMAIN cd, cd) =
                   Cardinality({k \in K : obj[proxies[k]].country # ""})

\* get_stats on a pool with reliable and unreliable members, with and
\* without a latency estimate, one of them without a country.
C17_Witness ==
    /\ last.op = "get_stats"
    /\ last.ret.total = 3
    /\ last.ret.reliable \in {1, 2}
    /\ \E i \in Range(proxies) : obj[i].country = ""
    /\ \E i \in Range(proxies) : obj[i].response_time = None
    /\ last.ret.avg_response_time.num > 0
    /\ last.ret.avg_success_rate.num > 0

\* C27: constructing a Proxy with an empty host or a port outside 1..65535
\* fails, so every endpoint in the pool has a non-empty host and a port in
\* 1..65535; and no operation of the rotator changes the host, port,
\* credentials, proxy type or country of an endpoint.
C27_ValidAndFixedIdentity ==
    /\ \A i \in CandidateIds :
          (HostOf(i) = "" \/ PortOf(i) < 1 \/ PortOf(i) > 65535) => i \notin ObjIds
    /\ \A k \in 1..Len(proxies) :
          /\ obj[proxies[k]].host # ""
          /\ obj[proxies[k]].port \in 1..65535
    /\ \A i \in ObjIds :
          /\ obj[i].host = HostOf(i)
          /\ obj[i].port = PortOf(i)
          /\ obj[i].username = UserOf(i)
          /\ obj[i].password = PasswordOf(i)
          /\ obj[i].proxy_type = TypeOf(i)
          /\ obj[i].country = CountryOf(i)

\* The endpoint with port 65535 is in a pool of three or more and has had a
\* report after its validation.
C27_Witness ==
    /\ last.op = "report_proxy_result"
    /\ last.proxy = 3
    /\ Len(proxies) >= 3
    /\ 3 \in Range(proxies)
    /\ obj[3].n >= 2

\* The statistics of an endpoint.
StatsFields(p) ==
    <<p.success_rate, p.response_time, p.failed_attempts, p.last_used>>

\* C28: get_next_proxy, get_proxy_by_country, get_stats and remove_proxy
\* leave the success_rate, response_time, failed_attempts and last_used of
\* every endpoint unchanged, and so does an add_proxy that is rejected
\* because the endpoint is in the pool already.
C28_StatsOnlyByUpdate ==
    [][(\/ last'.op \in {"get_next_proxy", "get_proxy_by_country", "get_stats",
                         "remove_proxy"}
        \/ last'.op = "add_proxy" /\ InPool(last'.proxy) /\ last'.ret = FALSE) =>
        \A i \in ObjIds : StatsFields(obj'[i]) = StatsFields(obj[i])
    ]_vars

\* get_next_proxy has sorted a pool of endpoints with statistics in place
\* during an outage: the order of the pool changed.
C28_Witness ==
    /\ last.op = "get_next_proxy"
    /\ last.ret # None
    /\ proxies[1] # 1
    /\ 1 \in Range(proxies)
    /\ obj[1].n >= 1
    /\ obj[proxies[1]].n >= 1

---------------------------------------------------------------------------
\* Specification of one endpoint: object 1, from the dataclass defaults,
\* under any sequence of update_stats and is_reliable calls.

InitEndpoint ==
    /\ obj = [i \in ObjIds |-> Fresh(i)]
    /\ proxies = <<>>
    /\ now = 1
    /\ phase = "new"
    /\ val = NoVal
    /\ last = NoCall
    /\ hist = <<>>
    /\ thr = NoThreads
    /\ ops = 0

\* obj[1].update_stats(success, rt)
EndpointUpdate(success, rt) ==
    /\ CanUpdate(obj[1], rt)
    /\ \E t \in ClockReadings :
        /\ now' = t
        /\ obj' = [obj EXCEPT ![1] = update_stats(@, success, rt, t)]
    /\ hist' = Append(hist, success)
    /\ last' = Call("update_stats", 1, success, rt, None)
    /\ UNCHANGED <<proxies, phase, val, thr, ops>>

\* obj[1].is_reliable()
EndpointIsReliable ==
    /\ last' = Call("is_reliable", 1, FALSE, None, is_reliable(obj[1]))
    /\ UNCHANGED <<obj, proxies, now, phase, val, hist, thr, ops>>

NextEndpoint ==
    \/ \E success \in BOOLEAN, rt \in LatencyArgs : EndpointUpdate(success, rt)
    \/ EndpointIsReliable

SpecEndpoint == InitEndpoint /\ [][NextEndpoint]_vars

---------------------------------------------------------------------------
\* Claims about one endpoint, checked under SpecEndpoint.

\* The last k entries of hist are all equal to b.
LastAre(k, b) ==
    /\ Len(hist) >= k
    /\ \A j \in 1..k : hist[Len(hist) - j + 1] = b

\* C2: update_stats(success, rt) on an endpoint with score s, failures f and
\* estimate L yields exactly: score 0.7*s + 0.3 on success and 0.7*s on
\* failure; failures 0 on success and f + 1 on failure; estimate rt if L was
\* absent, 0.7*L + 0.3*rt if L was present, L if no rt is given.  In
\* particular a failure without latency right after a success leaves
\* failed_attempts = 1 and the score 0.7 times the score after the success.
C2_RecordOutcomeExact ==
    [][last'.op = "update_stats" =>
        LET p == obj[1]
            q == obj'[1]
            s == last'.success
            rt == last'.rt
        IN  /\ 10 * q.success_rate =
                  IF s THEN 7 * p.success_rate + 3 * Scale ELSE 7 * p.success_rate
            /\ q.failed_attempts = IF s THEN 0 ELSE p.failed_attempts + 1
            /\ rt = None => q.response_time = p.response_time
            /\ (rt # None /\ p.response_time = None) => q.response_time = rt * LatScale
            /\ (rt # None /\ p.response_time # None) =>
                  10 * q.response_time = 7 * p.response_time + 3 * rt * LatScale
            /\ (LastAre(1, TRUE) /\ ~s /\ rt = None) =>
                  /\ q.failed_attempts = 1
                  /\ 10 * q.success_rate = 7 * p.success_rate
    ]_vars

\* A success with a latency blended into an earlier estimate, then a failure
\* without latency.
C2_Witness ==
    /\ last.op = "update_stats" /\ ~last.success /\ last.rt = None
    /\ Len(hist) >= 3
    /\ hist[Len(hist) - 1]
    /\ obj[1].nb >= 1
    /\ obj[1].failed_attempts = 1
    /\ obj[1].success_rate > 0

RECURSIVE TrailingFailures(_)
TrailingFailures(h) ==
    IF h = <<>> \/ h[Len(h)] THEN 0
    ELSE 1 + TrailingFailures(SubSeq(h, 1, Len(h) - 1))

\* C29: after any sequence of update_stats calls on a fresh endpoint the
\* success_rate is at least 0 and strictly below 1, and failed_attempts is
\* the number of failures recorded since the last success.
C29_ScoreAndFailuresInRange ==
    /\ 0 <= obj[1].success_rate
    /\ obj[1].success_rate < Scale
    /\ obj[1].failed_attempts >= 0
    /\ obj[1].failed_attempts = TrailingFailures(hist)

\* Five successes, then two failures.
C29_Witness ==
    /\ Len(hist) = 7
    /\ \A j \in 1..5 : hist[j]
    /\ obj[1].failed_attempts = 2
    /\ obj[1].success_rate > 0

\* C30: an update_stats call for a failed outcome leaves response_time as
\* it was, also when the call carries a response time.
C30_FailureKeepsLatency ==
    [][(last'.op = "update_stats" /\ ~last'.success) =>
        obj'[1].response_time = obj[1].response_time
    ]_vars

\* Every recorded outcome is b.
AllAre(b) == \A j \in 1..Len(hist) : hist[j] = b

C33_FourSuccessesRestore ==
    LastAre(4, TRUE) =>
        /\ is_reliable(obj[1])
        /\ obj[1].success_rate * 10 >= 7 * Scale
        /\ obj[1].failed_attempts = 0

\* Three failures made the endpoint unreliable with score 0; four successes
\* followed.
C33_Witness ==
    /\ Len(hist) = 7
    /\ \A j \in 1..3 : ~hist[j]
    /\ LastAre(4, TRUE)
    /\ is_reliable(obj[1])

---------------------------------------------------------------------------
\* Specification of the probe: _test_proxy on a proxy of every type against
\* every outcome of the requests it makes.

\* The handshake has an outcome for Tor proxies only.
NoHandshake == Response(0, "")

\* The code does not look at the response of the local Tor port: one
\* status stands for all.
HandshakeOutcome(hs) == hs.raises \/ hs = NoHandshake \/ hs.status = 200

ProbeInputs ==
    {[kind |-> k, hs |-> hs, net |-> net, lat |-> lat] :
        k \in ProxyTypes, hs \in NetOutcomes \cup {NoHandshake}, net \in NetOutcomes,
        lat \in Latencies}

\* One call per behaviour: _test_proxy keeps no state between calls.
TestProxyCall(in) ==
    /\ phase = "new"
    /\ last = NoCall
    /\ (in.kind = "TOR") <=> (in.hs # NoHandshake)
    /\ HandshakeOutcome(in.hs)
    /\ LET r == test_proxy(in.kind, in.hs, in.net, in.lat)
       IN  last' = Call("_test_proxy", None, r.ok, r.rt, r.ok)
                       @@ [in |-> in, raised |-> r.raised, requests |-> r.requests]
    /\ UNCHANGED <<obj, proxies, now, phase, val, hist, thr, ops>>

NextProbe == \E in \in ProbeInputs : TestProxyCall(in)

SpecProbe == InitEndpoint /\ [][NextProbe]_vars

ProbeReturned == last.op = "_test_proxy"

\* C22: _test_proxy raises nothing to its caller: every timeout, connection
\* error or other exception of a request gives (False, None); and every
\* result is (True, response_time) with a response time or (False, None).
C22_ProbeNeverRaises ==
    ProbeReturned =>
        /\ last.raised = ""
        /\ last.in.net.raises => (~last.success /\ last.rt = None)
        /\ (last.in.hs.raises /\ ~IsConnectionError(last.in.hs.exc)) =>
              (~last.success /\ last.rt = None)
        /\ \/ last.success /\ last.rt \in Latencies
           \/ ~last.success /\ last.rt = None

\* The request through the proxy raised an exception that is not one of
\* requests, and _test_proxy returned (False, None).
C22_Witness ==
    /\ ProbeReturned
    /\ last.in.net.raises /\ last.in.net.exc = "ValueError"
    /\ last.requests = <<"probe">>
    /\ ~last.success /\ last.rt = None /\ last.raised = ""

\* C23 as stated: for a proxy that is not a Tor proxy, _test_proxy returns
\* success exactly when a response arrives with a status in 200..299, also
\* when the body cannot be parsed.
C23_SuccessIff2xx ==
    (ProbeReturned /\ last.in.kind # "TOR") =>
        (last.success <=>
            (~last.in.net.raises /\ last.in.net.status \in 200..299))

\* C23 as amended: ... success exactly when a response arrives with status
\* 200 whose body is not JSON without "origin" and "ip": a body that cannot
\* be parsed counts as success, any other status, a timeout and a connection
\* failure as failure.
C23_SuccessIff200 ==
    (ProbeReturned /\ last.in.kind # "TOR") =>
        /\ last.success <=>
              /\ ~last.in.net.raises
              /\ last.in.net.status = 200
              /\ last.in.net.body # "other_keys"
        /\ last.success => last.rt = last.in.lat

\* Status 200 with a body that is not JSON: success.
C23_Witness ==
    /\ ProbeReturned /\ last.in.kind = "SOCKS5"
    /\ ~last.in.net.raises
    /\ last.in.net.status = 200 /\ last.in.net.body = "not_json"
    /\ last.success /\ last.rt = last.in.lat

C39_JsonWithoutIpFails ==
    (ProbeReturned /\ last.requests[Len(last.requests)] = "probe"
         /\ ~last.in.net.raises /\ last.in.net.status = 200) =>
        /\ last.in.net.body \in {"other_keys", "null"} =>
              (~last.success /\ last.rt = None)
        /\ last.in.net.body = "not_json" =>
              (last.success /\ last.rt = last.in.lat)

---------------------------------------------------------------------------
\* Specification of rotation: one caller that takes a proxy with
\* get_next_proxy and reports the outcome of using it before it takes the
\* next one.

\* The histories the proxies of the pool start with: never used;
\* unreliable after three failures; reliable after four successes, without
\* and with a latency estimate.
CallerHistories ==
    {[h |-> <<>>, t |-> 0],
     [h |-> <<Failed(None), Failed(None), Failed(None)>>, t |-> 1],
     [h |-> <<Succeeded(None), Succeeded(None), Succeeded(None), Succeeded(None)>>, t |-> 1],
     [h |-> <<Succeeded(10), Succeeded(None), Succeeded(None), Succeeded(None)>>, t |-> 1],
     [h |-> <<Succeeded(20), Succeeded(None), Succeeded(None), Succeeded(None),
              Succeeded(None)>>, t |-> 2]}

\* What the callers report: no latency is measured.
CallerReports == {Succeeded(None), Failed(None)}

\* A pool of two or three proxies; the caller can make MaxCalls + 1 calls.
InitCallers ==
    /\ \E k \in 2..3 : proxies = [j \in 1..k |-> j]
    /\ \E past \in [Range(proxies) -> CallerHistories] :
        obj = [i \in ObjIds |->
                  IF i \in Range(proxies) THEN Replay(i, past[i].h, past[i].t)
                  ELSE Fresh(i)]
    /\ now = 2
    /\ phase = "ready"
    /\ val = NoVal
    /\ last = NoCall
    /\ hist = <<>>
    /\ thr = NoThreads
    /\ ops = MaxCalls + 1

NextRotate ==
    \/ get_next_proxy
    \/ \E a \in CallerReports : ReportReturned(a.ok, a.rt)

SpecRotate == InitCallers /\ [][NextRotate]_vars

\* get_next_proxy is in the mode of lines 271-281: some reliable proxy has
\* no response time.
LruMode ==
    \E k \in 1..Len(ReliableProxies) : obj[ReliableProxies[k]].response_time = None

\* C36: with at least two reliable proxies, one of them without response
\* time, after get_next_proxy returned e and the caller reported a success
\* without response time for e, the following get_next_proxy returns
\* another proxy.
C36_NoRepeatAfterSuccess ==
    [][(/\ last.op = "report_proxy_result" /\ last.success /\ last.rt = None
        /\ Len(ReliableProxies) >= 2
        /\ LruMode
        /\ last'.op = "get_next_proxy") =>
           last'.ret # last.proxy
    ]_vars

---------------------------------------------------------------------------
\* Specification of the callers: two callers of one rotator, each taking a
\* proxy with get_next_proxy or get_proxy_by_country and later reporting
\* the outcome of using it.  Calls are whole steps here; the callers
\* interleave between calls.

\* Caller t holds the proxy thr[t].proxy and has not reported on it.
Holding(t) == thr[t].pc = "holding"

\* Caller t now holds the proxy the call returned, if it returned one.
Takes(t, op) ==
    thr' = [thr EXCEPT ![t] =
               IF last'.ret = None THEN Idle
               ELSE [Idle EXCEPT !.op = op, !.pc = "holding", !.proxy = last'.ret]]

\* Caller t calls get_next_proxy().
CallerNext(t) ==
    /\ thr[t].pc = "idle"
    /\ Ready
    /\ SelectBranch
    /\ Takes(t, "get_next_proxy")
    /\ UNCHANGED <<obj, now, phase, val, hist>>

\* Caller t calls get_proxy_by_country(c).
CallerByCountry(t, c) ==
    /\ thr[t].pc = "idle"
    /\ Ready
    /\ last' = Call("get_proxy_by_country", None, FALSE, None, CountryChoice(c))
                   @@ [country |-> c]
    /\ Takes(t, "get_proxy_by_country")
    /\ UNCHANGED <<obj, proxies, now, phase, val, hist>>

\* Caller t calls report_proxy_result(proxy, success, rt) for the proxy it
\* holds.
CallerReport(t, success, rt) ==
    /\ Holding(t)
    /\ Ready
    /\ ReportEffect(thr[t].proxy, success, rt)
    /\ last' = Call("report_proxy_result", thr[t].proxy, success, rt, None)
    /\ thr' = [thr EXCEPT ![t] = Idle]
    /\ UNCHANGED <<proxies, phase, val, hist>>

NextCallers ==
    \E t \in Threads :
        \/ CallerNext(t)
        \/ \E c \in CountryArgs : CallerByCountry(t, c)
        \/ \E a \in CallerReports : CallerReport(t, a.ok, a.rt)

SpecCallers == InitCallers /\ [][NextCallers]_vars

\* Proxy u is excluded: it is in the pool and unreliable while the pool has
\* a reliable proxy.
Excluded(u) == u \in Range(proxies) /\ ~is_reliable(obj[u]) /\ SomeReliable

\* The step is a report_proxy_result call of caller t.
ReportStep(t) == Holding(t) /\ thr'[t].pc = "idle"

\* The step is a get_next_proxy or get_proxy_by_country call.
HandOutStep == ops' < ops /\ \A t \in Threads : ~ReportStep(t)

\* The step is a report for a proxy other than the one the call just
\* before it returned.
LateReportStep ==
    \E t \in Threads :
        /\ ReportStep(t)
        /\ ~(last.op \in {"get_next_proxy", "get_proxy_by_country"}
                /\ last.ret = thr[t].proxy)

\* No call returns the excluded proxy u or changes its statistics.
LeftAlone(u) ==
    /\ HandOutStep => last'.ret # u
    /\ obj'[u] = obj[u]
    /\ ~is_reliable(obj'[u])

\* C35 as stated: when callers report only on proxies they got from
\* get_next_proxy or get_proxy_by_country, a proxy that is unreliable while
\* the pool has a reliable one is never returned and its statistics never
\* change, so it stays unreliable.
C35_ExcludedStaysExcluded ==
    [][\A u \in ObjIds : Excluded(u) => LeftAlone(u)]_vars

\* C35 as amended: when every report is made for the proxy that the call
\* just before it returned, a proxy that is unreliable while the pool has a
\* reliable one is never returned and its statistics never change, so it
\* stays unreliable.
C35_ExcludedUnlessLateReport ==
    [][~LateReportStep => \A u \in ObjIds : Excluded(u) => LeftAlone(u)]_vars

\* A caller took a proxy and reported a failure for it at once, and the
\* pool has an excluded proxy that had three failures before.
C35_Witness ==
    /\ last.op = "report_proxy_result" /\ ~last.success
    /\ ops = MaxCalls - 1
    /\ \A t \in Threads : ~Holding(t)
    /\ \E u \in Range(proxies) \ {last.proxy} :
          /\ Excluded(u)
          /\ obj[u].failed_attempts = 3
          /\ obj[u].n = 3

---------------------------------------------------------------------------
\* Specification of the caller of the repository: WebsiteVisitorBot of
\* src/website_visiter_bot.py, which owns one ProxyRotator
\* (self.proxy_rotator, line 244) and runs sessions: _setup_driver takes a
\* proxy from the rotator and starts a browser on it, _visit_page loads
\* pages through it, _refresh_driver can replace the driver with a new one
\* on a new proxy, _close_driver ends the session.  The bot is thread 1.

Bot == 1

\* The bot has no driver.
BotIdle == thr[Bot].pc = "idle"

\* The bot has a driver, on the proxy thr[Bot].proxy (None: no proxy); pc
\* tells whether a page has been requested through it.
BotHasDriver == thr[Bot].pc \in {"driver", "visited"}

\* Lines 331-335, in run_session (line 951): self.current_proxy =
\* self.proxy_rotator.get_next_proxy() if self.config.proxy_config else
\* None.  The rotator's list is the list of the configuration.  tmp keeps
\* the number of update_stats calls the proxy had when it was handed out.
SetupDriver ==
    /\ BotIdle
    /\ Ready
    /\ SelectBranch
    /\ thr' = [thr EXCEPT ![Bot].op = "run_session", ![Bot].pc = "driver",
                          ![Bot].proxy = last'.ret,
                          ![Bot].tmp = IF last'.ret = None THEN None
                                       ELSE obj[last'.ret].n]
    /\ UNCHANGED <<obj, now, phase, val, hist>>

\* Lines 707-742: one attempt of _visit_page, self.driver.get(url) through
\* the proxy of the driver; it succeeds or raises.  Neither path calls the
\* rotator.
VisitPage(success) ==
    /\ BotHasDriver
    /\ thr' = [thr EXCEPT ![Bot].pc = "visited", ![Bot].success = success]
    /\ UNCHANGED <<obj, proxies, now, phase, val, last, hist, ops>>

\* Lines 748-753 and 847-852: after a failed attempt _refresh_driver closes
\* the driver and calls _setup_driver, which takes the next proxy.
RefreshDriver ==
    /\ thr[Bot].pc = "visited"
    /\ ~thr[Bot].success
    /\ Ready
    /\ SelectBranch
    /\ thr' = [thr EXCEPT ![Bot].pc = "driver",
                          ![Bot].proxy = last'.ret,
                          ![Bot].tmp = IF last'.ret = None THEN None
                                       ELSE obj[last'.ret].n]
    /\ UNCHANGED <<obj, now, phase, val, hist>>

\* Lines 857-865, in the finally of run_session (line 974).
CloseDriver ==
    /\ BotHasDriver
    /\ thr' = [thr EXCEPT ![Bot] = Idle]
    /\ last' = Call("_close_driver", thr[Bot].proxy, thr[Bot].success, None, None)
    /\ UNCHANGED <<obj, proxies, now, phase, val, hist, ops>>

NextBot ==
    \/ SetupDriver
    \/ \E success \in BOOLEAN : VisitPage(success)
    \/ RefreshDriver
    \/ CloseDriver

SpecBot == InitSelect /\ [][NextBot]_vars

---------------------------------------------------------------------------
\* Specification of concurrent callers: two threads, each making one call
\* of report_proxy_result, add_proxy or remove_proxy on the same rotator.
\* The source takes no lock anywhere.  Python does not make a statement
\* atomic: `self.x = f(self.x)` and `self.x += 1` load the attribute, compute
\* and store it back, and another thread can run between the load and the
\* store, as between any two statements.  Each load and each store of an
\* attribute is a step of its own here; `in`, list.append and list.remove
\* are one step each.

\* The pool the threads work on: object 1 has been used once with success,
\* object 2 is fresh, object 3 is not in the pool.
RaceStart ==
    [i \in ObjIds |-> IF i = 1 THEN update_stats(Fresh(1), TRUE, ProbeLatency(1), 1)
                      ELSE Fresh(i)]

\* The proxies the threads pass.
RaceIds == {1, 3}

InitRace ==
    /\ obj = RaceStart
    /\ proxies = <<1, 2>>
    /\ now = 1
    /\ phase = "ready"
    /\ val = NoVal
    /\ last = NoCall
    /\ hist = <<>>
    /\ thr = NoThreads
    /\ ops = 0

\* Thread t goes on to position pc.
Goto(t, pc) == thr' = [thr EXCEPT ![t].pc = pc]

\* The call of thread t returns ret, or raises it.
Return(t, ret) == thr' = [thr EXCEPT ![t].pc = "done", ![t].ret = ret]

\* Line 285: `if proxy in self.proxies`, the first step of a call
\* report_proxy_result(proxy, success, rt) by thread t.
ReportCheck(t, i, success, rt) ==
    /\ thr[t].pc = "idle"
    /\ thr' = [thr EXCEPT ![t] =
                  [Idle EXCEPT !.op = "report_proxy_result", !.proxy = i,
                               !.success = success, !.rt = rt,
                               !.pc = IF InPool(i) THEN "time" ELSE "done",
                               !.ret = IF InPool(i) THEN "" ELSE "None"]]
    /\ UNCHANGED <<obj, proxies, now, phase, val, last, hist, ops>>

\* Line 96: self.last_used = time.time()
StoreLastUsed(t) ==
    /\ thr[t].pc = "time"
    /\ \E c \in ClockReadings :
        /\ now' = c
        /\ obj' = [obj EXCEPT ![thr[t].proxy].last_used = c]
    /\ Goto(t, IF thr[t].rt = None THEN "rate_load" ELSE "rt_check")
    /\ UNCHANGED <<proxies, phase, val, last, hist, ops>>

\* Line 99: `if self.response_time is None`
CheckResponseTime(t) ==
    /\ thr[t].pc = "rt_check"
    /\ Goto(t, IF obj[thr[t].proxy].response_time = None THEN "rt_set" ELSE "rt_load")
    /\ UNCHANGED <<obj, proxies, now, phase, val, last, hist, ops>>

\* Line 100: self.response_time = response_time
SetResponseTime(t) ==
    /\ thr[t].pc = "rt_set"
    /\ obj' = [obj EXCEPT ![thr[t].proxy].response_time = BlendLatency(None, thr[t].rt)]
    /\ Goto(t, "rate_load")
    /\ UNCHANGED <<proxies, now, phase, val, last, hist, ops>>

\* Line 103, the load of self.response_time.
LoadResponseTime(t) ==
    /\ thr[t].pc = "rt_load"
    /\ thr' = [thr EXCEPT ![t].pc = "rt_store", ![t].tmp = obj[thr[t].proxy].response_time]
    /\ UNCHANGED <<obj, proxies, now, phase, val, last, hist, ops>>

\* Line 103, the store of self.response_time.
StoreResponseTime(t) ==
    /\ thr[t].pc = "rt_store"
    /\ obj[thr[t].proxy].nb < MaxBlends
    /\ obj' = [obj EXCEPT ![thr[t].proxy].response_time = BlendLatency(thr[t].tmp, thr[t].rt),
                          ![thr[t].proxy].nb = @ + 1]
    /\ Goto(t, "rate_load")
    /\ UNCHANGED <<proxies, now, phase, val, last, hist, ops>>

\* Lines 107 and 111, the load of self.success_rate.
LoadSuccessRate(t) ==
    /\ thr[t].pc = "rate_load"
    /\ thr' = [thr EXCEPT ![t].pc = "rate_store", ![t].tmp = obj[thr[t].proxy].success_rate]
    /\ UNCHANGED <<obj, proxies, now, phase, val, last, hist, ops>>

\* Lines 107 and 111, the store of self.success_rate.
StoreSuccessRate(t) ==
    /\ thr[t].pc = "rate_store"
    /\ obj[thr[t].proxy].n < MaxUpdates
    /\ obj' = [obj EXCEPT ![thr[t].proxy].success_rate = BlendRate(thr[t].tmp, thr[t].success),
                          ![thr[t].proxy].n = @ + 1]
    /\ Goto(t, IF thr[t].success THEN "failed_reset" ELSE "failed_load")
    /\ UNCHANGED <<proxies, now, phase, val, last, hist, ops>>

\* update_stats returns to the call of thread t: report_proxy_result
\* returns (lines 286-287), add_proxy goes on to line 299.
AfterUpdate(t) ==
    thr' = [thr EXCEPT
               ![t].updated = TRUE,
               ![t].pc = IF thr[t].op = "add_proxy" /\ thr[t].success THEN "append"
                         ELSE "done",
               ![t].ret = IF thr[t].op = "report_proxy_result" THEN "None"
                          ELSE IF thr[t].success THEN "" ELSE "False"]

\* Line 108: self.failed_attempts = 0
ResetFailed(t) ==
    /\ thr[t].pc = "failed_reset"
    /\ obj' = [obj EXCEPT ![thr[t].proxy].failed_attempts = NextFailed(@, TRUE)]
    /\ AfterUpdate(t)
    /\ UNCHANGED <<proxies, now, phase, val, last, hist, ops>>

\* Line 112, the load of self.failed_attempts.
LoadFailed(t) ==
    /\ thr[t].pc = "failed_load"
    /\ thr' = [thr EXCEPT ![t].pc = "failed_store", ![t].tmp = obj[thr[t].proxy].failed_attempts]
    /\ UNCHANGED <<obj, proxies, now, phase, val, last, hist, ops>>

\* Line 112, the store of self.failed_attempts.
StoreFailed(t) ==
    /\ thr[t].pc = "failed_store"
    /\ obj' = [obj EXCEPT ![thr[t].proxy].failed_attempts = NextFailed(thr[t].tmp, FALSE)]
    /\ AfterUpdate(t)
    /\ UNCHANGED <<proxies, now, phase, val, last, hist, ops>>

\* Lines 291-295: `if proxy in self.proxies`, the first step of a call
\* add_proxy(proxy, validate) by thread t.
AddCheck(t, i, validate) ==
    /\ thr[t].pc = "idle"
    /\ thr' = [thr EXCEPT ![t] =
                  [Idle EXCEPT !.op = "add_proxy", !.proxy = i, !.validate = validate,
                               !.pc = IF InPool(i) THEN "done"
                                      ELSE IF validate THEN "probe" ELSE "append",
                               !.ret = IF InPool(i) THEN "False" ELSE ""]]
    /\ UNCHANGED <<obj, proxies, now, phase, val, last, hist, ops>>

\* Line 296: result, response_time = self._test_proxy(proxy)
AddProbe(t) ==
    /\ thr[t].pc = "probe"
    /\ \E r \in ProbeResults(thr[t].proxy) :
        thr' = [thr EXCEPT ![t].pc = "time", ![t].success = r.ok, ![t].rt = r.rt]
    /\ UNCHANGED <<obj, proxies, now, phase, val, last, hist, ops>>

\* Lines 303-305: self.proxies.append(proxy); return True
AddAppend(t) ==
    /\ thr[t].pc = "append"
    /\ proxies' = Append(proxies, thr[t].proxy)
    /\ Return(t, "True")
    /\ UNCHANGED <<obj, now, phase, val, last, hist, ops>>

\* Lines 309, 313: `if proxy in self.proxies`, the first step of a call
\* remove_proxy(proxy) by thread t.
RemoveCheck(t, i) ==
    /\ thr[t].pc = "idle"
    /\ thr' = [thr EXCEPT ![t] =
                  [Idle EXCEPT !.op = "remove_proxy", !.proxy = i,
                               !.pc = IF InPool(i) THEN "remove" ELSE "done",
                               !.ret = IF InPool(i) THEN "" ELSE "False"]]
    /\ UNCHANGED <<obj, proxies, now, phase, val, last, hist, ops>>

\* Lines 310-312: self.proxies.remove(proxy); return True.  list.remove
\* raises ValueError when the proxy is no longer in the list.
RemoveFromList(t) ==
    /\ thr[t].pc = "remove"
    /\ IF InPool(thr[t].proxy)
       THEN /\ proxies' = RemoveFirst(proxies, thr[t].proxy)
            /\ Return(t, "True")
       ELSE /\ UNCHANGED proxies
            /\ Return(t, "ValueError")
    /\ UNCHANGED <<obj, now, phase, val, last, hist, ops>>

\* The arguments of the concurrent report_proxy_result calls.
RaceReports == {[ok |-> TRUE, rt |-> 10], [ok |-> FALSE, rt |-> None], [ok |-> FALSE, rt |-> 50]}

NextRace ==
    \E t \in Threads :
        \/ \E i \in RaceIds, a \in RaceReports : ReportCheck(t, i, a.ok, a.rt)
        \/ StoreLastUsed(t)
        \/ CheckResponseTime(t)
        \/ SetResponseTime(t)
        \/ LoadResponseTime(t)
        \/ StoreResponseTime(t)
        \/ LoadSuccessRate(t)
        \/ StoreSuccessRate(t)
        \/ ResetFailed(t)
        \/ LoadFailed(t)
        \/ StoreFailed(t)
        \/ \E i \in RaceIds, validate \in BOOLEAN : AddCheck(t, i, validate)
        \/ AddProbe(t)
        \/ AddAppend(t)
        \/ \E i \in RaceIds : RemoveCheck(t, i)
        \/ RemoveFromList(t)

SpecRace == InitRace /\ [][NextRace]_vars

\* Every thread has made its call.
RaceDone == \A t \in Threads : thr[t].pc = "done"

\* The threads whose call ran update_stats on object i.
Updaters(i) == {t \in Threads : thr[t].updated /\ thr[t].proxy = i}

\* p after the update_stats call of thread t.
Applied(p, t) == update_stats(p, thr[t].success, thr[t].rt, 0)

\* Object i after the update_stats calls made on it, one after another,
\* in each order.
Serial(i) ==
    LET U == Updaters(i)
    IN  IF U = {} THEN {RaceStart[i]}
        ELSE IF Cardinality(U) = 1 THEN {Applied(RaceStart[i], t) : t \in U}
        ELSE {Applied(Applied(RaceStart[i], o[1]), o[2]) :
                  o \in {o \in U \X U : o[1] # o[2]}}

SameStats(p, q) ==
    /\ p.failed_attempts = q.failed_attempts
    /\ p.success_rate = q.success_rate
    /\ p.response_time = q.response_time

\* C25: after concurrent update_stats calls on one proxy (from
\* report_proxy_result, or from the validation of add_proxy), its
\* failed_attempts, success_rate and response_time are those of the calls
\* applied one after another in some order.
C25_UpdatesSerialized ==
    RaceDone => \A i \in ObjIds : \E q \in Serial(i) : SameStats(obj[i], q)

\* C26: concurrent add_proxy and remove_proxy calls end as in some
\* sequential order: no call raises, no proxy is in the list twice, and of
\* two add_proxy calls for the same proxy at most one returns True.
C26_PoolChangesSerialized ==
    RaceDone =>
        /\ \A t \in Threads : thr[t].ret # "ValueError"
        /\ \A i \in ObjIds : Count(proxies, i) <= 1
        /\ \A t \in Threads : \A u \in Threads \ {t} :
               (thr[t].op = "add_proxy" /\ thr[u].op = "add_proxy"
                    /\ thr[t].proxy = thr[u].proxy)
                   => ~(thr[t].ret = "True" /\ thr[u].ret = "True")

=========================================================================
